---- MODULE Spec2Model ----
(***************************************************************************)
(* Model of the diabetes management application (src/App.py) and of the    *)
(* agent variant of its analyzer (src/app.py).                             *)
(*                                                                         *)
(* Time is counted in whole hours since a midnight, so that a timestamp's  *)
(* hour of day is  timestamp % 24  and a day is 24 ticks.                  *)
(*                                                                         *)
(* Floats.  np.mean, Series.mean, np.std and Series.std are modelled in    *)
(* exact arithmetic: a mean is a reduced fraction [num, den], a standard   *)
(* deviation is carried by its square (a reduced fraction).  Values are    *)
(* integers in 0..500 and windows hold at most a handful of them, so every *)
(* comparison of a mean with 180, 140 or 70 has the same outcome in        *)
(* float64 as in exact arithmetic.  std > 40 is decided on the exact       *)
(* variance (variance > 1600) except where the float64 steps of np.std     *)
(* leave the result one unit in the last place above an exact 40: such     *)
(* windows are listed in StdRoundedUp and np_std flags them.  A rounded    *)
(* float (round(x, 1), or the format :.1f) is an integer number of tenths; *)
(* RoundStdTenths needs 400 * Len^2 * variance below 2^30, which holds for *)
(* the windows of the specifications below.                                *)
(***************************************************************************)
EXTENDS Integers, Sequences, FiniteSets, TLC

VARIABLES
    file,       \* diabetes_data.json: NoFile, or the data last saved
    session,    \* st.session_state.data of each session, or NotLoaded
    now,        \* datetime.now(), in hours
    analysis,   \* the last call of an analyzer: its variant, input and result
    analytics   \* the last rendering of the analytics page

vars == <<file, session, now, analysis, analytics>>

(***************************************************************************)
(* Bounds of the model.                                                    *)
(***************************************************************************)
MaxSessions == 2
MaxReadings == 2
MaxOther == 1
MaxLen == 3
MaxRows == 3
MaxTail == 11

(***************************************************************************)
(* Program constants.                                                      *)
(***************************************************************************)
HighMean == 180
ModerateMean == 140
HighStd == 40
LowMean == 70
TailWindow == 10
HoursPerDay == 24
WeekDays == 7
MonthDays == 30
DefaultReading == 120

Sessions == 1..MaxSessions

\* The file diabetes_data.json does not exist.
NoFile == [missing |-> TRUE]
\* 'data' is not in st.session_state yet.
NotLoaded == [loaded |-> FALSE]
\* Nothing has been computed or rendered yet.
None == [none |-> TRUE]
\* float('nan')
NaN == [nan |-> TRUE]

(***************************************************************************)
(* Arithmetic helpers.                                                     *)
(***************************************************************************)
RECURSIVE Gcd(_, _)
Gcd(a, b) == IF b = 0 THEN a ELSE Gcd(b, a % b)

\* The float num/den (den > 0, num >= 0), as a reduced fraction.
Frac(n, d) == LET g == Gcd(n, d) IN [num |-> n \div g, den |-> d \div g]

RECURSIVE Sum(_)
Sum(s) == IF s = <<>> THEN 0 ELSE Head(s) + Sum(Tail(s))

RECURSIVE SumSq(_)
SumSq(s) == IF s = <<>> THEN 0 ELSE Head(s) * Head(s) + SumSq(Tail(s))

\* Len(s) * sum of squared deviations from the mean: Len(s)^2 * variance.
Dev(s) == Len(s) * SumSq(s) - Sum(s) * Sum(s)

RECURSIVE ISqrtIn(_, _, _)
ISqrtIn(n, lo, hi) ==
    IF lo >= hi THEN lo
    ELSE LET mid == (lo + hi + 1) \div 2
         IN  IF mid * mid <= n THEN ISqrtIn(n, mid, hi) ELSE ISqrtIn(n, lo, mid - 1)

\* floor(sqrt(n)) for 0 <= n < 2^30.
ISqrt(n) == ISqrtIn(n, 0, 32767)

\* x > k and x < k for a float x (a fraction) and an integer k.
FGt(x, k) == x.num > k * x.den
FLt(x, k) == x.num < k * x.den

\* s > k for a standard deviation s >= 0 carried by its square; a float
\* returned just above its exact value k is greater than k.
SGt(s, k) ==
    \/ s.sq.num > k * k * s.sq.den
    \/ s.up /\ s.sq.num = k * k * s.sq.den

\* A float rounded to one decimal place, in tenths (ties to even).
RoundTenths(x) ==
    LET q == (10 * x.num) \div x.den
        r == (10 * x.num) % x.den
    IN  IF 2 * r < x.den THEN q
        ELSE IF 2 * r > x.den THEN q + 1
        ELSE IF q % 2 = 0 THEN q ELSE q + 1

\* f"{x:.1f}" of a number, and of a standard deviation.
Fmt1(x) == IF x = NaN THEN [text |-> "nan"] ELSE [tenths |-> RoundTenths(x)]

\* A standard deviation rounded to one decimal place, in tenths:
\* floor(10 * s + 1/2) = (floor(sqrt(400 * s^2)) + 1) div 2.
RoundStdTenths(s) == (ISqrt((400 * s.sq.num) \div s.sq.den) + 1) \div 2

FmtStd1(s) == IF s = NaN THEN [text |-> "nan"] ELSE [tenths |-> RoundStdTenths(s)]

(***************************************************************************)
(* numpy and pandas reductions.                                            *)
(***************************************************************************)
np_mean(values) == Frac(Sum(values), Len(values))

\* Windows of exact standard deviation 40 on which np.std returns
\* 40.00000000000001.  Their mean 98/3 is no float64, so x - mean, the
\* squares, their sum (added in stored order, pairwise from eight values on)
\* and the division by 9 are each rounded; in these orders the rounded
\* variance is 1600.0000000000005.  In sorted order, <<6, 6, 6, 6, 6, 26, 26,
\* 106, 106>>, the same steps return 40.0.
StdRoundedUp ==
    {<<6, 6, 6, 106, 106, 6, 6, 26, 26>>,
     <<6, 6, 26, 6, 106, 6, 106, 6, 26>>}

\* Population standard deviation (ddof = 0): its exact square, and whether
\* the float returned lies above the exact value.
np_std(values) ==
    [sq |-> Frac(Dev(values), Len(values) * Len(values)),
     up |-> values \in StdRoundedUp]

\* Series.mean(): NaN on an empty series.
pd_mean(values) == IF values = <<>> THEN NaN ELSE Frac(Sum(values), Len(values))

\* Series.std(): sample standard deviation (ddof = 1), NaN below two values.
pd_std(values) ==
    IF Len(values) < 2 THEN NaN
    ELSE [sq |-> Frac(Dev(values), Len(values) * (Len(values) - 1))]

RECURSIVE SeqMin(_)
SeqMin(s) ==
    IF Len(s) = 1 THEN s[1]
    ELSE LET m == SeqMin(Tail(s)) IN IF Head(s) < m THEN Head(s) ELSE m

RECURSIVE SeqMax(_)
SeqMax(s) ==
    IF Len(s) = 1 THEN s[1]
    ELSE LET m == SeqMax(Tail(s)) IN IF Head(s) > m THEN Head(s) ELSE m

\* Series.min() and Series.max(): NaN on an empty series.
pd_min(values) == IF values = <<>> THEN NaN ELSE Frac(SeqMin(values), 1)
pd_max(values) == IF values = <<>> THEN NaN ELSE Frac(SeqMax(values), 1)

(***************************************************************************)
(* The analyzers.                                                          *)
(***************************************************************************)
\* LastReadings with the slice left out: every reading is used.
LastReadingsAll(readings) == readings

\* readings[-10:]
LastReadings(readings) ==
    IF Len(readings) <= TailWindow THEN readings
    ELSE SubSeq(readings, Len(readings) - TailWindow + 1, Len(readings))

\* [r['value'] for r in readings[-10:]]
TailValues(readings) ==
    LET w == LastReadings(readings) IN [i \in 1..Len(w) |-> w[i].value]

\* RiskLevel with the first test written mean >= 180.
RiskLevelInclusive(mean) ==
    IF ~FLt(mean, HighMean) THEN "high"
    ELSE IF FGt(mean, ModerateMean) THEN "moderate"
    ELSE "low"

RiskLevel(mean) ==
    IF FGt(mean, HighMean) THEN "high"
    ELSE IF FGt(mean, ModerateMean) THEN "moderate"
    ELSE "low"

MsgHigh == "Your blood sugar is running high. Consider reviewing your meal plan."
MsgVariable == "Your blood sugar shows high variability. Try to maintain consistent meal times."
MsgLow == "Your blood sugar is running low. Consider adjusting your medication."
MsgGood == "Your blood sugar control looks good! Keep up the good work."
MsgNotEnough == "Not enough data for analysis"

AgentMsgHigh == "Blood sugar is high - consider adjusting medication/diet"
AgentMsgVariable == "High variability detected - try maintaining consistent meal times"
AgentMsgLow == "Blood sugar running low - review medication dosage"
AgentMsgGood == "Blood sugar control looks good!"
AgentMsgNoData == "No data available for analysis"

\* Recommend with the variability test written std >= 40.
RecommendInclusive(mean, std, high, variable, low, good) ==
    LET recs == (IF FGt(mean, HighMean) THEN <<high>> ELSE <<>>)
                \o (IF std.sq.num >= HighStd * HighStd * std.sq.den
                    THEN <<variable>> ELSE <<>>)
                \o (IF FLt(mean, LowMean) THEN <<low>> ELSE <<>>)
    IN  IF recs = <<>> THEN <<good>> ELSE recs

\* The three appends and the fallback, with the messages of one variant.
Recommend(mean, std, high, variable, low, good) ==
    LET recs == (IF FGt(mean, HighMean) THEN <<high>> ELSE <<>>)
                \o (IF SGt(std, HighStd) THEN <<variable>> ELSE <<>>)
                \o (IF FLt(mean, LowMean) THEN <<low>> ELSE <<>>)
    IN  IF recs = <<>> THEN <<good>> ELSE recs

\* analyze_glucose_pattern with the guard written len(readings) < 2.
analyze_glucose_pattern_short(readings) ==
    IF Len(readings) < 2
    THEN [risk_level |-> "unknown", recommendations |-> <<MsgNotEnough>>]
    ELSE LET values == TailValues(readings)
             mean == np_mean(values)
             std == np_std(values)
         IN  [risk_level |-> RiskLevel(mean),
              mean |-> RoundTenths(mean),
              std |-> RoundStdTenths(std),
              recommendations |->
                  Recommend(mean, std, MsgHigh, MsgVariable, MsgLow, MsgGood)]

\* DiabetesAI.analyze_glucose_pattern
analyze_glucose_pattern(readings) ==
    IF readings = <<>>
    THEN [risk_level |-> "unknown", recommendations |-> <<MsgNotEnough>>]
    ELSE LET values == TailValues(readings)
             mean == np_mean(values)
             std == np_std(values)
         IN  [risk_level |-> RiskLevel(mean),
              mean |-> RoundTenths(mean),
              std |-> RoundStdTenths(std),
              recommendations |->
                  Recommend(mean, std, MsgHigh, MsgVariable, MsgLow, MsgGood)]

\* GlucoseAgent._generate_recommendations
generate_recommendations(mean, std) ==
    Recommend(mean, std, AgentMsgHigh, AgentMsgVariable, AgentMsgLow, AgentMsgGood)

\* GlucoseAgent.analyze
analyze(readings) ==
    IF readings = <<>>
    THEN [risk_level |-> "unknown", recommendations |-> <<AgentMsgNoData>>]
    ELSE LET values == TailValues(readings)
             mean == np_mean(values)
             std == np_std(values)
         IN  [risk_level |-> RiskLevel(mean),
              mean |-> RoundTenths(mean),
              std |-> RoundStdTenths(std),
              recommendations |-> generate_recommendations(mean, std)]

(***************************************************************************)
(* Data management.                                                        *)
(***************************************************************************)
EmptyData ==
    [glucose_readings |-> <<>>, medications |-> <<>>, meals |-> <<>>, exercise |-> <<>>]

\* load_or_create_data(): the file's content, or the empty store when the
\* file is not found.
load_or_create_data == IF file = NoFile THEN EmptyData ELSE file

\* save_data(data): the whole file is rewritten with the session's data.
save_data(data) == file' = data

\* The values the model enters in st.number_input(..., 0, 500, 120).
EntryValues == {DefaultReading, 200}

(***************************************************************************)
(* The pages of App.py.                                                    *)
(***************************************************************************)
\* main(): the first run of a session loads the store into its session state.
Start(s) ==
    /\ session[s] = NotLoaded
    /\ session' = [session EXCEPT ![s] = load_or_create_data]
    /\ UNCHANGED <<file, now, analysis, analytics>>

\* show_glucose_logging(): the "Save Reading" button.
SaveReading(s, reading) ==
    /\ session[s] # NotLoaded
    /\ Len(session[s].glucose_readings) < MaxReadings
    /\ LET new_reading == [timestamp |-> now, value |-> reading, notes |-> ""]
           data == [session[s] EXCEPT
                        !.glucose_readings = Append(@, new_reading)]
       IN  /\ session' = [session EXCEPT ![s] = data]
           /\ save_data(data)
    /\ UNCHANGED <<now, analysis, analytics>>

\* show_medications(): the "Add Medication" button.
AddMedication(s) ==
    /\ session[s] # NotLoaded
    /\ Len(session[s].medications) < MaxOther
    /\ LET new_med == [name |-> "", dosage |-> "", time |-> now % HoursPerDay]
           data == [session[s] EXCEPT !.medications = Append(@, new_med)]
       IN  /\ session' = [session EXCEPT ![s] = data]
           /\ save_data(data)
    /\ UNCHANGED <<now, analysis, analytics>>

\* show_meals(): the "Log Meal" button.
LogMeal(s) ==
    /\ session[s] # NotLoaded
    /\ Len(session[s].meals) < MaxOther
    /\ LET new_meal == [timestamp |-> now, type |-> "Breakfast",
                        description |-> "", carbs |-> 0]
           data == [session[s] EXCEPT !.meals = Append(@, new_meal)]
       IN  /\ session' = [session EXCEPT ![s] = data]
           /\ save_data(data)
    /\ UNCHANGED <<now, analysis, analytics>>

\* show_exercise(): the "Log Exercise" button.
LogExercise(s) ==
    /\ session[s] # NotLoaded
    /\ Len(session[s].exercise) < MaxOther
    /\ LET new_exercise == [timestamp |-> now, activity |-> "",
                            duration |-> 30, intensity |-> "Low"]
           data == [session[s] EXCEPT !.exercise = Append(@, new_exercise)]
       IN  /\ session' = [session EXCEPT ![s] = data]
           /\ save_data(data)
    /\ UNCHANGED <<now, analysis, analytics>>

\* str.upper() of a risk level.
Upper(level) ==
    CASE level = "unknown" -> "UNKNOWN"
      [] level = "low" -> "LOW"
      [] level = "moderate" -> "MODERATE"
      [] level = "high" -> "HIGH"

\* The card a dashboard renders from an analysis by indexing it with `keys`
\* in turn: the first key the analysis lacks raises KeyError, which ends the
\* run of the page; otherwise the card shows the values of the keys.
Card(result, keys) ==
    LET missing == {i \in 1..Len(keys) : keys[i] \notin DOMAIN result}
    IN  IF missing = {}
        THEN [error |-> "none",
              reads |-> {keys[i] : i \in 1..Len(keys)},
              risk |-> Upper(result.risk_level),
              shown |-> [k \in {keys[i] : i \in 1..Len(keys)} \ {"risk_level"}
                            |-> result[k]]]
        ELSE LET first == CHOOSE i \in missing : \A j \in missing : i <= j
             IN  [error |-> "KeyError",
                  reads |-> {keys[i] : i \in 1..first}]

\* show_dashboard() of App.py: the AI analysis of the session's readings,
\* of which the page shows the risk level and the recommendations.
ShowDashboard(s) ==
    /\ session[s] # NotLoaded
    /\ LET result == analyze_glucose_pattern(session[s].glucose_readings)
       IN  analysis' = [variant |-> "DiabetesAI",
                        input |-> session[s].glucose_readings,
                        result |-> result,
                        page |-> Card(result, <<"risk_level", "recommendations">>)]
    /\ UNCHANGED <<file, session, now, analytics>>

\* show_dashboard() of app.py: the agent's analysis of the session's
\* readings, of which the page shows the risk level, mean, std and the
\* recommendations.
AgentDashboard(s) ==
    /\ session[s] # NotLoaded
    /\ LET result == analyze(session[s].glucose_readings)
       IN  analysis' = [variant |-> "GlucoseAgent",
                        input |-> session[s].glucose_readings,
                        result |-> result,
                        page |-> Card(result,
                                 <<"risk_level", "mean", "std", "recommendations">>)]
    /\ UNCHANGED <<file, session, now, analytics>>

\* GlucoseAgent.analyze applied to the session's readings.
AgentAnalyze(s) ==
    /\ session[s] # NotLoaded
    /\ analysis' = [variant |-> "GlucoseAgent",
                    input |-> session[s].glucose_readings,
                    result |-> analyze(session[s].glucose_readings)]
    /\ UNCHANGED <<file, session, now, analytics>>

(***************************************************************************)
(* The analytics page.                                                     *)
(***************************************************************************)
\* pd.DataFrame(readings): one row per reading, labelled by its position; a
\* boolean selection keeps the labels of the rows it keeps.
DataFrame(readings) ==
    [i \in 1..Len(readings) |->
        [index |-> i - 1, timestamp |-> readings[i].timestamp,
         value |-> readings[i].value, notes |-> readings[i].notes]]

\* timedelta(days=d), in hours.
Days(d) == d * HoursPerDay

TimeRangeOptions == {"Last 7 Days", "Last 30 Days", "All Time"}

\* FilterRange with the comparison written timestamp > now - timedelta.
FilterRangeStrict(df, time_range, t) ==
    IF time_range = "Last 7 Days"
    THEN SelectSeq(df, LAMBDA r : r.timestamp > t - Days(WeekDays))
    ELSE IF time_range = "Last 30 Days"
    THEN SelectSeq(df, LAMBDA r : r.timestamp > t - Days(MonthDays))
    ELSE df

\* df[df['timestamp'] >= datetime.now() - timedelta(days=...)], for the two
\* ranges the page tests for; any other value leaves df as it is.
FilterRange(df, time_range, t) ==
    IF time_range = "Last 7 Days"
    THEN SelectSeq(df, LAMBDA r : r.timestamp >= t - Days(WeekDays))
    ELSE IF time_range = "Last 30 Days"
    THEN SelectSeq(df, LAMBDA r : r.timestamp >= t - Days(MonthDays))
    ELSE df

Column(df) == [i \in 1..Len(df) |-> df[i].value]

\* df['timestamp'].dt.hour
Hour(timestamp) == timestamp % HoursPerDay

RECURSIVE SortAsc(_)
SortAsc(S) ==
    IF S = {} THEN <<>>
    ELSE LET m == CHOOSE x \in S : \A y \in S : x <= y
         IN  <<m>> \o SortAsc(S \ {m})

\* HourlyAvg with the aggregation written .sum().
HourlySum(df) ==
    LET hours == SortAsc({Hour(df[i].timestamp) : i \in 1..Len(df)})
    IN  [k \in 1..Len(hours) |->
            [hour |-> hours[k],
             value |-> Frac(Sum(Column(SelectSeq(df,
                          LAMBDA r : Hour(r.timestamp) = hours[k]))), 1)]]

\* df.groupby('hour')['value'].mean().reset_index(): one row per hour that
\* occurs, in ascending order of hour, with the mean of the hour's values.
HourlyAvg(df) ==
    LET hours == SortAsc({Hour(df[i].timestamp) : i \in 1..Len(df)})
    IN  [k \in 1..Len(hours) |->
            [hour |-> hours[k],
             value |-> pd_mean(Column(SelectSeq(df,
                          LAMBDA r : Hour(r.timestamp) = hours[k])))]]

\* What show_analytics() renders for the selected time range at time t.
AnalyticsPage(readings, time_range, t) ==
    IF readings = <<>>
    THEN [warning |-> TRUE]
    ELSE LET df == FilterRange(DataFrame(readings), time_range, t)
             values == Column(df)
         IN  [warning |-> FALSE,
              df |-> df,
              hourly_avg |-> HourlyAvg(df),
              average |-> Fmt1(pd_mean(values)),
              std |-> FmtStd1(pd_std(values)),
              minimum |-> Fmt1(pd_min(values)),
              maximum |-> Fmt1(pd_max(values))]

\* The page body of show_analytics() with time_range as the value of the
\* time range selector.
Render(s, time_range) ==
    /\ session[s] # NotLoaded
    /\ analytics' = [input |-> session[s].glucose_readings,
                     time_range |-> time_range,
                     now |-> now,
                     view |-> AnalyticsPage(session[s].glucose_readings,
                                            time_range, now)]
    /\ UNCHANGED <<file, session, now, analysis>>

\* show_analytics(): st.selectbox returns one of its three options.
ShowAnalytics(s) == \E time_range \in TimeRangeOptions : Render(s, time_range)

\* The hour at which the model's sessions begin.
StartHour == 8

Init ==
    /\ file = NoFile
    /\ session = [s \in Sessions |-> NotLoaded]
    /\ now = StartHour
    /\ analysis = None
    /\ analytics = None

(***************************************************************************)
(* The store: sessions of App.py sharing diabetes_data.json.  Each session  *)
(* loads the file once, rewrites it whenever one of its forms is saved and  *)
(* analyzes its own copy of the readings on the dashboard.                 *)
(***************************************************************************)
Next ==
    \/ \E s \in Sessions : Start(s)
    \/ \E s \in Sessions, reading \in EntryValues : SaveReading(s, reading)
    \/ \E s \in Sessions : AddMedication(s)
    \/ \E s \in Sessions : LogMeal(s)
    \/ \E s \in Sessions : LogExercise(s)
    \/ \E s \in Sessions : ShowDashboard(s)

Spec == Init /\ [][Next]_vars

(***************************************************************************)
(* The analyzers on a store of readings: one session that has loaded a     *)
(* store holding up to MaxLen readings, logged one per hour.               *)
(***************************************************************************)
AnalyzeValues == {0, 60, 100, 140, 180, 181, 260}

Logged(values) ==
    [i \in 1..Len(values) |->
        [timestamp |-> StartHour + i - 1, value |-> values[i], notes |-> ""]]

InitAnalyze ==
    \E n \in 0..MaxLen : \E values \in [1..n -> AnalyzeValues] :
        LET data == [EmptyData EXCEPT !.glucose_readings = Logged(values)]
        IN  /\ file = IF n = 0 THEN NoFile ELSE data
            /\ session = [s \in Sessions |-> IF s = 1 THEN data ELSE NotLoaded]
            /\ now = StartHour + n
            /\ analysis = None
            /\ analytics = None

NextAnalyze ==
    \/ \E s \in Sessions : ShowDashboard(s)
    \/ \E s \in Sessions : AgentAnalyze(s)
    \/ \E s \in Sessions : AgentDashboard(s)

SpecAnalyze == InitAnalyze /\ [][NextAnalyze]_vars

(***************************************************************************)
(* The analyzers on a long store: one session that has loaded a store of   *)
(* up to MaxTail readings, more than the analyzers' window holds.          *)
(***************************************************************************)
TailInputs == {100, 260}

InitTail ==
    \E n \in 0..MaxTail : \E values \in [1..n -> TailInputs] :
        LET data == [EmptyData EXCEPT !.glucose_readings = Logged(values)]
        IN  /\ file = IF n = 0 THEN NoFile ELSE data
            /\ session = [s \in Sessions |-> IF s = 1 THEN data ELSE NotLoaded]
            /\ now = StartHour + n
            /\ analysis = None
            /\ analytics = None

NextTail ==
    \/ \E s \in Sessions : ShowDashboard(s)
    \/ \E s \in Sessions : AgentAnalyze(s)

SpecTail == InitTail /\ [][NextTail]_vars

(***************************************************************************)
(* The analyzers on windows whose standard deviation rounds to 40.0: one   *)
(* session that has loaded the first readings of one of these windows.     *)
(* The windows have an exact standard deviation just above 40 (variance    *)
(* 1600.67 and 1600.89), equal to 40, and just below 40 (variance          *)
(* 1597.56); three of them hold the same nine values in different orders.  *)
(***************************************************************************)
RoundingWindows ==
    {<<6, 55, 104>>, <<0, 48, 98>>,
     <<26, 106>>, <<100, 180>>, <<60, 60, 140, 140>>,
     <<6, 6, 6, 6, 6, 26, 26, 106, 106>>,
     <<6, 6, 6, 106, 106, 6, 6, 26, 26>>,
     <<6, 6, 26, 6, 106, 6, 106, 6, 26>>,
     <<6, 43, 103>>, <<0, 20, 93>>}

InitRounding ==
    \E w \in RoundingWindows : \E n \in 0..Len(w) :
        LET data == [EmptyData EXCEPT !.glucose_readings = Logged(SubSeq(w, 1, n))]
        IN  /\ file = IF n = 0 THEN NoFile ELSE data
            /\ session = [s \in Sessions |-> IF s = 1 THEN data ELSE NotLoaded]
            /\ now = StartHour + n
            /\ analysis = None
            /\ analytics = None

NextRounding ==
    \/ \E s \in Sessions : ShowDashboard(s)
    \/ \E s \in Sessions : AgentAnalyze(s)

SpecRounding == InitRounding /\ [][NextRounding]_vars

(***************************************************************************)
(* The analytics page on a store of readings: one session that has loaded  *)
(* a store of up to MaxRows readings saved at times around the two window  *)
(* edges.  datetime.now() is the naive local wall clock, which is set back *)
(* at the end of daylight saving time or by the user, so a stored reading  *)
(* may carry a timestamp later than the current time.                      *)
(***************************************************************************)
AnalyticsNow == StartHour + Days(MonthDays + 3)

Stamps ==
    {AnalyticsNow - Days(MonthDays) - 1, AnalyticsNow - Days(MonthDays),
     AnalyticsNow - Days(WeekDays) - 1, AnalyticsNow - Days(WeekDays),
     AnalyticsNow - HoursPerDay \div 2, AnalyticsNow, AnalyticsNow + 1}

AnalyticsValues == {100, 200}

InitAnalytics ==
    \E n \in 0..MaxRows :
      \E stamps \in [1..n -> Stamps], values \in [1..n -> AnalyticsValues] :
        LET readings == [i \in 1..n |->
                [timestamp |-> stamps[i], value |-> values[i], notes |-> ""]]
            data == [EmptyData EXCEPT !.glucose_readings = readings]
        IN  /\ \A i \in 1..(n - 1) : stamps[i] <= stamps[i + 1]
            /\ file = IF n = 0 THEN NoFile ELSE data
            /\ session = [s \in Sessions |-> IF s = 1 THEN data ELSE NotLoaded]
            /\ now = AnalyticsNow
            /\ analysis = None
            /\ analytics = None

NextAnalytics == \E s \in Sessions : ShowAnalytics(s)

SpecAnalytics == InitAnalytics /\ [][NextAnalytics]_vars

(***************************************************************************)
(* The page body given any value of the time range, the selector's three   *)
(* options and one that is none of them.                                   *)
(***************************************************************************)
WindowInputs == TimeRangeOptions \cup {"Last 90 Days"}

NextWindow == \E s \in Sessions, time_range \in WindowInputs : Render(s, time_range)

SpecWindow == InitAnalytics /\ [][NextWindow]_vars

(***************************************************************************)
(* Properties of the analyzers.                                            *)
(***************************************************************************)
Analyzed == analysis # None /\ analysis.input # <<>>

\* The messages of the variant that made the last analysis.
Messages ==
    IF analysis.variant = "DiabetesAI"
    THEN [high |-> MsgHigh, variable |-> MsgVariable, low |-> MsgLow, good |-> MsgGood]
    ELSE [high |-> AgentMsgHigh, variable |-> AgentMsgVariable,
          low |-> AgentMsgLow, good |-> AgentMsgGood]

\* C1: for every non-empty reading sequence, either analyzer returns risk
\* level high exactly when the mean of the selected values is > 180,
\* moderate exactly when 140 < mean <= 180, and low exactly when
\* mean <= 140 (so a mean of exactly 180 is moderate, of exactly 140 low).
C1_RiskByMean ==
    Analyzed =>
        LET v == TailValues(analysis.input)
            total == Sum(v)
            n == Len(v)
            risk == analysis.result.risk_level
        IN  /\ risk \in {"high", "moderate", "low"}
            /\ risk = "high" <=> total > 180 * n
            /\ risk = "moderate" <=> (total > 140 * n /\ total <= 180 * n)
            /\ risk = "low" <=> total <= 140 * n

\* Several readings whose mean is exactly 180 have been classified moderate.
C1_Witness ==
    /\ Analyzed
    /\ Len(analysis.input) >= 2
    /\ Sum(TailValues(analysis.input)) = 180 * Len(analysis.input)
    /\ analysis.result.risk_level = "moderate"

C3_UnknownIffEmpty ==
    analysis # None =>
        /\ analysis.result.risk_level = "unknown" <=> analysis.input = <<>>
        /\ "mean" \in DOMAIN analysis.result <=> analysis.input # <<>>
        /\ "std" \in DOMAIN analysis.result <=> analysis.input # <<>>

\* A single reading has been analyzed: the risk is known and mean and std are
\* present.
C3_Witness ==
    /\ analysis # None
    /\ Len(analysis.input) = 1
    /\ analysis.result.risk_level # "unknown"
    /\ {"mean", "std"} \subseteq DOMAIN analysis.result

\* C4: on an empty reading sequence every variant of the analyzer returns
\* risk level unknown and exactly the one recommendation "Not enough data
\* for analysis", with no mean and no std.
C4_EmptyResult ==
    (analysis # None /\ analysis.input = <<>>) =>
        analysis.result =
            [risk_level |-> "unknown",
             recommendations |-> <<"Not enough data for analysis">>]

(***************************************************************************)
(* Properties of the store.                                                *)
(***************************************************************************)
IsPrefix(a, b) == Len(a) <= Len(b) /\ SubSeq(b, 1, Len(a)) = a

\* C5: the persisted reading store is append-only across sessions: every
\* write of the file leaves the previously persisted glucose readings as a
\* prefix of the new ones, so a persisted reading is never lost or reordered.
C5_AppendOnly ==
    [][file # NoFile =>
          IsPrefix(file.glucose_readings, file'.glucose_readings)]_vars

(***************************************************************************)
(* Properties of the analytics page.                                       *)
(***************************************************************************)
\* The page went past the empty-store warning and rendered its charts.
Charted == analytics # None /\ ~analytics.view.warning

\* The positions (from 0) of the stored readings stamped at or after `from`.
StoredSince(from) ==
    {i - 1 : i \in {j \in 1..Len(analytics.input) :
                        analytics.input[j].timestamp >= from}}

\* The positions of the rows of a frame.
Labels(df) == {df[i].index : i \in 1..Len(df)}

\* C6: on the analytics page, whenever the store is not empty but the time
\* window keeps no reading, the summary statistics are absent and a "no
\* data" state is displayed instead of mean/std/min/max metrics.
C6_NoDataState ==
    (/\ analytics # None
     /\ analytics.input # <<>>
     /\ \/ /\ analytics.time_range = "Last 7 Days"
           /\ StoredSince(analytics.now - 7 * 24) = {}
        \/ /\ analytics.time_range = "Last 30 Days"
           /\ StoredSince(analytics.now - 30 * 24) = {})
    => /\ analytics.view.warning
       /\ DOMAIN analytics.view \cap {"average", "std", "minimum", "maximum"} = {}

C8_SameStd ==
    (Charted /\ analytics.view.df # <<>>)
    => analytics.view.std =
           [tenths |-> analyze_glucose_pattern(analytics.view.df).std]

\* C9: for a fixed now, last 7 days keeps a reading iff its timestamp is
\* >= now - 7 days, last 30 days iff it is >= now - 30 days (the lower bound
\* included, no upper bound), all time keeps every reading, each kept once,
\* unchanged and in stored order; so the readings kept for 7 days are among
\* those kept for 30 days, which are among all.
C9_WindowFilter ==
    Charted =>
        LET df == analytics.view.df
            t == analytics.now
            all == DataFrame(analytics.input)
            kept == Labels(df)
        IN  /\ analytics.time_range = "Last 7 Days"
                   => kept = StoredSince(t - 7 * 24)
            /\ analytics.time_range = "Last 30 Days"
                   => kept = StoredSince(t - 30 * 24)
            /\ analytics.time_range = "All Time"
                   => kept = 0..(Len(analytics.input) - 1)
            /\ \A i \in 1..Len(df) :
                   /\ df[i].timestamp = analytics.input[df[i].index + 1].timestamp
                   /\ df[i].value = analytics.input[df[i].index + 1].value
            /\ \A i \in 1..(Len(df) - 1) : df[i].index < df[i + 1].index
            /\ Labels(FilterRange(all, "Last 7 Days", t))
                   \subseteq Labels(FilterRange(all, "Last 30 Days", t))
            /\ Labels(FilterRange(all, "Last 30 Days", t)) \subseteq Labels(all)

\* Last 7 days kept a reading stamped exactly now - 7 days and one stamped
\* after now, and dropped a reading one hour older than the edge.
C9_Witness ==
    /\ Charted
    /\ analytics.time_range = "Last 7 Days"
    /\ \E i \in 1..Len(analytics.view.df) :
           analytics.view.df[i].timestamp = analytics.now - 7 * 24
    /\ \E i \in 1..Len(analytics.view.df) :
           analytics.view.df[i].timestamp > analytics.now
    /\ \E j \in 1..Len(analytics.input) :
           /\ analytics.input[j].timestamp = analytics.now - 7 * 24 - 1
           /\ (j - 1) \notin Labels(analytics.view.df)

\* The filtered readings are 100 and 100 at hour 8 and 200 at hour 20.
ScenarioD ==
    /\ Charted
    /\ Len(analytics.view.df) = 3
    /\ Cardinality({i \in 1..3 : /\ analytics.view.df[i].timestamp % 24 = 8
                                 /\ analytics.view.df[i].value = 100}) = 2
    /\ Cardinality({i \in 1..3 : /\ analytics.view.df[i].timestamp % 24 = 20
                                 /\ analytics.view.df[i].value = 200}) = 1

\* C10: the hourly aggregation has one entry for each hour of day 0..23
\* that occurs among the filtered readings, holding the arithmetic mean of
\* that hour's values, no entry for any other hour, and its entries in
\* ascending order of hour; values 100, 100 at hour 8 and 200 at hour 20
\* give exactly {8: 100.0, 20: 200.0}.
C10_HourlyMeans ==
    Charted =>
        LET df == analytics.view.df
            h == analytics.view.hourly_avg
            rowsAt(hour) == {i \in 1..Len(df) : df[i].timestamp % 24 = hour}
            total(hour) == Sum(Column(SelectSeq(df,
                               LAMBDA r : r.timestamp % 24 = hour)))
        IN  /\ {h[k].hour : k \in 1..Len(h)} =
                   {df[i].timestamp % 24 : i \in 1..Len(df)}
            /\ \A k \in 1..Len(h) :
                   /\ h[k].hour \in 0..23
                   /\ h[k].value.num * Cardinality(rowsAt(h[k].hour))
                          = total(h[k].hour) * h[k].value.den
            /\ \A k \in 1..(Len(h) - 1) : h[k].hour < h[k + 1].hour
            /\ ScenarioD =>
                   h = <<[hour |-> 8, value |-> [num |-> 100, den |-> 1]],
                         [hour |-> 20, value |-> [num |-> 200, den |-> 1]]>>

\* The page charted scenario D, the reading of hour 20 stored before one of
\* hour 8.
C10_Witness ==
    /\ ScenarioD
    /\ Len(analytics.view.hourly_avg) = 2
    /\ \E i, j \in 1..3 :
           /\ i < j
           /\ analytics.view.df[i].timestamp % 24 = 20
           /\ analytics.view.df[j].timestamp % 24 = 8

(***************************************************************************)
(* Properties of the dashboards.                                           *)
(***************************************************************************)
\* C11: the callers of the analyzers branch on the insufficient-data state:
\* rendering the dashboard while the reading store is empty never fails and
\* never reads the absent mean and std of the result; it shows the unknown
\* risk level and the recommendations only.
C11_EmptyDashboard ==
    (analysis # None /\ "page" \in DOMAIN analysis /\ analysis.input = <<>>)
    => /\ analysis.page.error = "none"
       /\ analysis.page.reads \cap {"mean", "std"} = {}
       /\ analysis.page.risk = "UNKNOWN"
       /\ analysis.page.shown =
              [k \in {"recommendations"} |-> analysis.result.recommendations]

(***************************************************************************)
(* Properties of the tail window.                                          *)
(***************************************************************************)
\* The analyzer that made the last analysis.
Analyzer(readings) ==
    IF analysis.variant = "DiabetesAI"
    THEN analyze_glucose_pattern(readings)
    ELSE analyze(readings)

\* The number of readings an analysis of n readings uses.
Used(n) == IF n < 10 THEN n ELSE 10

\* C12: an analysis of N readings uses exactly the last min(N, 10) values:
\* mean and std are those of these values (of all of them when N < 10), and
\* the whole result is the one the last min(N, 10) readings get alone or
\* after any older reading, so stores that agree on their last 10 readings
\* get the same risk level, mean, std and recommendations.
C12_TailWindow ==
    Analyzed =>
        LET n == Len(analysis.input)
            k == Used(n)
            recent == SubSeq(analysis.input, n - k + 1, n)
            v == [i \in 1..k |-> analysis.input[n - k + i].value]
        IN  /\ analysis.result.mean = RoundTenths(Frac(Sum(v), k))
            /\ analysis.result.std =
                   RoundStdTenths([sq |-> Frac(k * SumSq(v) - Sum(v) * Sum(v), k * k)])
            /\ analysis.result = Analyzer(recent)
            /\ n >= 10 =>
                   \A value \in TailInputs :
                       analysis.result =
                           Analyzer(<<[timestamp |-> 0, value |-> value, notes |-> ""]>>
                                    \o recent)

\* Eleven readings were analyzed, the oldest 260 and the last ten all 100:
\* the mean returned is 100.0.
C12_Witness ==
    /\ Analyzed
    /\ Len(analysis.input) = 11
    /\ analysis.input[1].value = 260
    /\ \A i \in 2..11 : analysis.input[i].value = 100
    /\ analysis.result.mean = 1000

(***************************************************************************)
(* Properties of the rounding of the result.                               *)
(***************************************************************************)
\* C13: rounding mean and std to one decimal place touches the returned
\* fields only: risk level and recommendations follow the unrounded mean and
\* standard deviation of the window, so among windows whose std is returned
\* as 40.0 the variability message is given to those of variance above 1600
\* and to no window of variance 1600 or less.
C13_RulesOnUnrounded ==
    (Analyzed /\ Len(analysis.input) <= TailWindow) =>
        LET v == [i \in 1..Len(analysis.input) |-> analysis.input[i].value]
            n == Len(v)
            recs == analysis.result.recommendations
        IN  /\ analysis.result.mean = RoundTenths(Frac(Sum(v), n))
            /\ analysis.result.std = RoundStdTenths([sq |-> Frac(Dev(v), n * n)])
            /\ analysis.result.risk_level = RiskLevel(Frac(Sum(v), n))
            /\ (\E i \in 1..Len(recs) : recs[i] = Messages.high)
                   <=> Sum(v) > HighMean * n
            /\ analysis.result.std = 10 * HighStd =>
                   ((\E i \in 1..Len(recs) : recs[i] = Messages.variable)
                       <=> Dev(v) > HighStd * HighStd * n * n)

====
